---- MODULE Spec2Model ----
(***************************************************************************)
(* Blade-element-momentum solver of src/src/bem_solver.py as a state        *)
(* machine.                                                                  *)
(*                                                                           *)
(* Number representation.  The program computes in IEEE doubles; the model   *)
(* computes in fixed point:                                                  *)
(*   - dimensionless quantities (a, a', sin, cos, F, cl, cd, cn, ct, sigma,  *)
(*     the momentum terms) and omega [rad/s] are integers n standing for     *)
(*     n / Scale;                                                            *)
(*   - lengths (r, c, dr, R) are in decimetres, wind speeds in cm/s, rotor   *)
(*     speed in 0.1 rpm, angles in 0.01 degree;                              *)
(*   - thrust is in N, torque in N m, power in W;                            *)
(*   - NaN is the IEEE not-a-number: it propagates through arithmetic and    *)
(*     every comparison with it is false; +infinity is represented by the    *)
(*     saturation value TermMax, whose reciprocal is 0 like that of +inf.    *)
(***************************************************************************)
EXTENDS Integers, Sequences, FiniteSets, TLC

Scale == 10 ^ 4
NaN == 0 - (2 ^ 30)
TermMax == Scale * Scale
\* np.pi, in 1/Scale
PiS == 31416

IsNaN(x) == x = NaN
Abs(x) == IF x < 0 THEN 0 - x ELSE x
Min2(x, y) == IF x < y THEN x ELSE y
Max2(x, y) == IF x > y THEN x ELSE y

\* floor(a * b / d) for a >= 0, 0 <= b, d > 0 with b * d < 2^31, without
\* forming the full product.
MulDiv(a, b, d) == (a \div d) * b + ((a % d) * b) \div d

\* Fixed-point product and quotient of two dimensionless numbers.
MulS(x, y) == IF x >= 0 THEN MulDiv(x, y, Scale) ELSE 0 - MulDiv(0 - x, y, Scale)

RECURSIVE SqrtIter(_, _, _)
SqrtIter(n, lo, hi) ==
    IF hi - lo <= 1 THEN lo
    ELSE LET mid == (lo + hi) \div 2
         IN IF mid * mid <= n THEN SqrtIter(n, mid, hi) ELSE SqrtIter(n, lo, mid)

\* floor(sqrt(n)), 0 <= n < 2^31
Isqrt(n) == SqrtIter(n, 0, 46341)

\* tan(k degrees) * Scale for k = 0 .. 89 (index k + 1)
TanTable ==
    << 0, 175, 349, 524, 699, 875, 1051, 1228, 1405, 1584,
       1763, 1944, 2126, 2309, 2493, 2679, 2867, 3057, 3249, 3443,
       3640, 3839, 4040, 4245, 4452, 4663, 4877, 5095, 5317, 5543,
       5774, 6009, 6249, 6494, 6745, 7002, 7265, 7536, 7813, 8098,
       8391, 8693, 9004, 9325, 9657, 10000, 10355, 10724, 11106, 11504,
       11918, 12349, 12799, 13270, 13764, 14281, 14826, 15399, 16003, 16643,
       17321, 18040, 18807, 19626, 20503, 21445, 22460, 23559, 24751, 26051,
       27475, 29042, 30777, 32709, 34874, 37321, 40108, 43315, 47046, 51446,
       56713, 63138, 71154, 81443, 95144, 114301, 143007, 190811, 286363, 572900 >>

RECURSIVE TanIndex(_, _, _)
\* the largest k in lo .. hi-1 with TanTable[k+1] <= t  (TanTable[lo+1] <= t)
TanIndex(t, lo, hi) ==
    IF hi - lo <= 1 THEN lo
    ELSE LET mid == (lo + hi) \div 2
         IN IF TanTable[mid + 1] <= t THEN TanIndex(t, mid, hi) ELSE TanIndex(t, lo, mid)

\* arctan(t / Scale) in 0.01 degree, t >= 0: table with linear interpolation
AtanDeg(t) ==
    IF t >= TanTable[90] THEN 9000 - (5730 * 100) \div (t \div 100)
    ELSE LET k == TanIndex(t, 0, 90)
             lo == TanTable[k + 1]
             hi == TanTable[k + 2]
         IN k * 100 + (100 * (t - lo)) \div (hi - lo)

\* np.arctan2(y, x) for y >= 0, x >= 0, as the triple the program uses:
\* the angle in 0.01 degree and its sine and cosine.
Atan2(y, x) ==
    IF IsNaN(y) \/ IsNaN(x) THEN [deg |-> NaN, sin |-> NaN, cos |-> NaN]
    ELSE IF y = 0 THEN [deg |-> 0, sin |-> 0, cos |-> Scale]
    ELSE IF x = 0 THEN [deg |-> 9000, sin |-> Scale, cos |-> 0]
    ELSE LET m == Max2(x, y)
             \* normalise so that the larger component is Scale
             yn == MulDiv(y, Scale, m)
             xn == MulDiv(x, Scale, m)
             h == Isqrt(xn * xn + yn * yn)
             t == IF xn = 0 THEN TermMax ELSE (yn * Scale) \div xn
         IN [deg |-> AtanDeg(t),
             sin |-> (yn * Scale) \div h,
             cos |-> (xn * Scale) \div h]

\* np.exp(-f / Scale) * Scale for f >= 0: e^-n from a table, e^-frac by its
\* Taylor series to the eighth power.
ExpNegInt == << 10000, 3679, 1353, 498, 183, 67, 25, 9, 3, 1 >>

ExpNegFrac(x) ==
    LET t1 == x
        t2 == (t1 * x) \div (2 * Scale)
        t3 == (t2 * x) \div (3 * Scale)
        t4 == (t3 * x) \div (4 * Scale)
        t5 == (t4 * x) \div (5 * Scale)
        t6 == (t5 * x) \div (6 * Scale)
        t7 == (t6 * x) \div (7 * Scale)
        t8 == (t7 * x) \div (8 * Scale)
    IN Scale - t1 + t2 - t3 + t4 - t5 + t6 - t7 + t8

ExpNeg(f) ==
    IF f \div Scale >= 10 THEN 0
    ELSE MulS(ExpNegInt[(f \div Scale) + 1], ExpNegFrac(f % Scale))

\* np.arccos(e / Scale) in 0.01 degree, 0 <= e <= Scale
AcosDeg(e) == Atan2(Isqrt(Scale * Scale - e * e), e).deg

(***************************************************************************)
(* IEEE comparisons: false as soon as one side is NaN.                      *)
(***************************************************************************)
Lt(x, y) == ~IsNaN(x) /\ ~IsNaN(y) /\ x < y
Leq(x, y) == ~IsNaN(x) /\ ~IsNaN(y) /\ x <= y
Gt(x, y) == ~IsNaN(x) /\ ~IsNaN(y) /\ x > y

RECURSIVE LongDiv(_, _, _)
\* floor(rem * 10^digits / den) for 0 <= rem < den < 2 * 10^8
LongDiv(rem, den, digits) ==
    IF digits = 0 THEN 0
    ELSE ((rem * 10) \div den) * (10 ^ (digits - 1))
         + LongDiv((rem * 10) % den, den, digits - 1)

\* The IEEE quotient of num >= 0 (in 1/Scale) by den >= 0 (in 1/Scale^2),
\* in 1/Scale, that is floor(num * Scale^2 / den): 0/0 is NaN, x/0 is +inf
\* (TermMax), and quotients of 10^4 and more saturate at TermMax.
Quot(num, den) ==
    IF IsNaN(num) \/ IsNaN(den) THEN NaN
    ELSE IF den = 0 THEN (IF num = 0 THEN NaN ELSE TermMax)
    ELSE LET n == IF den >= 2 * 10 ^ 8 THEN (num * Scale) \div 10 ELSE num * Scale
             d == IF den >= 2 * 10 ^ 8 THEN den \div 10 ELSE den
         IN IF n \div d >= Scale THEN TermMax
            ELSE (n \div d) * Scale + LongDiv(n % d, d, 4)

(***************************************************************************)
(* Program constants of solve_bem.                                          *)
(***************************************************************************)
\* B = 3, number of blades
B == 3
\* rho = 1.225 kg/m^3, in 1/Scale
rho == 12250
\* for _ in range(100)
MaxIter == 100
\* thresholds 0.01 of the guards on cn, ct, sin(phi), cos(phi), in 1/Scale
SmallCoeff == 100
\* cap 0.4 on the candidate axial induction, in 1/Scale
GlauertCap == 4000
\* clip limits 0.5, in 1/Scale
ClipLimit == 5000
\* F = 0.99 when sin(phi) vanishes, in 1/Scale
FGuard == 9900
\* fallback coefficients (cl, cd) = (0.0001, 0.35), in 1/Scale
DefaultCl == 1
DefaultCd == 3500

\* omega = rpm * 2 * np.pi / 60, rpm in 0.1 rpm, omega in 1/Scale rad/s
Omega(rpm_) == (rpm_ * 2 * PiS) \div 600

RECURSIVE SeqMax(_, _)
SeqMax(s, n) == IF n = 1 THEN s[1] ELSE Max2(s[n], SeqMax(s, n - 1))

\* R = np.max(r)
RotorRadius(r_) == SeqMax(r_, Len(r_))

\* np.zeros_like(r)
ZerosLike(r_) == [j \in 1 .. Len(r_) |-> 0]

\* a loop without the cap
LoopContinuesForever(n) == TRUE

\* for _ in range(100): another pass is made while fewer than 100 were
LoopContinues(n) == n < MaxIter

\* dr = np.gradient(r): central differences inside, one-sided at the two ends
\* (defined for at least two stations).  Halves round toward zero.
Gradient(r_) ==
    [j \in 1 .. Len(r_) |->
        IF j = 1 THEN r_[2] - r_[1]
        ELSE IF j = Len(r_) THEN r_[j] - r_[j - 1]
        ELSE LET d == r_[j + 1] - r_[j - 1]
             IN IF d >= 0 THEN d \div 2 ELSE 0 - ((0 - d) \div 2)]

\* the threshold a factor of ten lower
SkippedBelowThousandth(ri, R_) == 1000 * ri < R_

\* if r[i] < 0.01 * R: continue
Skipped(ri, R_) == 100 * ri < R_

\* sigma = (B * c[i]) / (2 * np.pi * r[i]), in 1/Scale; at r[i] = 0 the
\* quotient of doubles is +inf (NaN for a zero chord)
Sigma(ci, ri) ==
    IF ri = 0 THEN (IF ci = 0 THEN NaN ELSE TermMax)
    ELSE (B * ci * Scale * 10) \div ((2 * PiS * ri) \div 1000)

\* phi = np.arctan2((1 - a[i]) * v0, (1 + a_prime[i]) * omega * r[i])
FlowAngle(ai, api, v0_, omega_, ri) ==
    IF IsNaN(ai) \/ IsNaN(api) THEN Atan2(NaN, NaN)
    ELSE Atan2(MulDiv(v0_, Scale - ai, Scale),
               MulDiv(MulDiv(omega_, ri, 1000), Scale + api, Scale))

\* the guard value 0.99 returned for every angle
TipLossGuardOnly(phi_, R_, ri) == IF IsNaN(phi_.sin) THEN NaN ELSE FGuard

\* F: 0.99 if |sin(phi)| < 1e-6, else the Prandtl tip loss
\* (2/pi) * arccos(exp(-((B/2) * (R - r[i]) / (r[i] * sin(phi)))))
TipLoss(phi_, R_, ri) ==
    IF IsNaN(phi_.sin) THEN NaN
    ELSE IF Abs(phi_.sin) * 100 < 1 THEN FGuard
    \* r[i] = 0: the exponent is 0/0 at the tip, +inf inboard
    ELSE IF ri = 0 THEN (IF R_ = ri THEN NaN ELSE Scale)
    ELSE LET q == (B * (R_ - ri) * Scale) \div (2 * ri)
             e == IF q \div phi_.sin >= 10 THEN 0
                  ELSE ExpNeg((q * Scale) \div phi_.sin)
         IN (AcosDeg(e) * Scale) \div 9000

\* alpha = np.rad2deg(phi) - (pitch + beta[i]), in 0.01 degree
AngleOfAttack(phi_, pitch_, betai) ==
    IF IsNaN(phi_.deg) THEN NaN ELSE phi_.deg - (pitch_ + betai)

RECURSIVE Bracket(_, _, _)
\* the last index j <= n - 1 with xs[j] <= x  (xs ascending, xs[1] <= x)
Bracket(xs, x, j) ==
    IF j + 1 < Len(xs) /\ xs[j + 1] <= x THEN Bracket(xs, x, j + 1) ELSE j

\* Linear interpolation of ys over xs at x, the end segments continued
\* outside the table.
Interp1Extrapolated(xs, ys, x) ==
    IF IsNaN(x) THEN NaN
    ELSE LET j == IF x <= xs[1] THEN 1 ELSE Bracket(xs, x, 1)
             num == (ys[j + 1] - ys[j]) * (x - xs[j])
             den == xs[j + 1] - xs[j]
         IN ys[j] + (IF num >= 0 THEN num \div den ELSE 0 - ((0 - num) \div den))

\* Linear interpolation of ys over xs at x, the end values held outside
\* the table.
Interp1(xs, ys, x) ==
    IF IsNaN(x) THEN NaN
    ELSE IF x <= xs[1] THEN ys[1]
    ELSE IF x >= xs[Len(xs)] THEN ys[Len(xs)]
    ELSE LET j == Bracket(xs, x, 1)
             num == (ys[j + 1] - ys[j]) * (x - xs[j])
             den == xs[j + 1] - xs[j]
         IN ys[j] + (IF num >= 0 THEN num \div den ELSE 0 - ((0 - num) \div den))

\* interpolate_airfoil_coefficients(alpha_data, cl_data, cd_data, alpha)
interpolate_airfoil_coefficients(polar, alpha_) ==
    << Interp1(polar.alpha, polar.cl, alpha_), Interp1(polar.alpha, polar.cd, alpha_) >>

\* no coefficients for an unknown airfoil
CoefficientsNoFallback(db, afi, alpha_) ==
    IF afi \in DOMAIN db THEN interpolate_airfoil_coefficients(db[afi], alpha_)
    ELSE << 0, 0 >>

\* cl, cd: looked up when af_id[i] is in the database, else (0.0001, 0.35)
Coefficients(db, afi, alpha_) ==
    IF afi \in DOMAIN db THEN interpolate_airfoil_coefficients(db[afi], alpha_)
    ELSE << DefaultCl, DefaultCd >>

\* x * y for a coefficient x and a sine or cosine y
MulN(x, y) == IF IsNaN(x) \/ IsNaN(y) THEN NaN ELSE MulS(x, y)
AddN(x, y) == IF IsNaN(x) \/ IsNaN(y) THEN NaN ELSE x + y
SubN(x, y) == IF IsNaN(x) \/ IsNaN(y) THEN NaN ELSE x - y

\* cn = cl * cos(phi) + cd * sin(phi)
NormalCoeff(cl_, cd_, phi_) == AddN(MulN(cl_, phi_.cos), MulN(cd_, phi_.sin))
\* ct = cl * sin(phi) - cd * cos(phi)
TangentialCoeff(cl_, cd_, phi_) == SubN(MulN(cl_, phi_.sin), MulN(cd_, phi_.cos))

\* sigma * cn, in 1/Scale^2; an infinite sigma times a positive coefficient
\* is infinite (2^30 stands for it), times zero it is NaN
SigmaTimes(sigma_, coeff) ==
    IF IsNaN(coeff) \/ IsNaN(sigma_) THEN NaN
    ELSE IF sigma_ >= TermMax
         THEN (IF coeff = 0 THEN NaN ELSE IF coeff > 0 THEN 2 ^ 30 ELSE 0 - (2 ^ 30 - 1))
    ELSE sigma_ * coeff

Times4(x) == IF IsNaN(x) THEN NaN ELSE 4 * x

\* term = (4 * F * np.sin(phi)**2) / (sigma * cn)
AxialTerm(F_, phi_, sigma_, cn_) ==
    Quot(Times4(MulN(F_, MulN(phi_.sin, phi_.sin))), SigmaTimes(sigma_, cn_))

\* new_a: 0 if cn <= 0.01, else 1 / (term + 1) capped at 0.4
NewA(cn_, F_, phi_, sigma_) ==
    IF Leq(cn_, SmallCoeff) THEN 0
    ELSE LET term == AxialTerm(F_, phi_, sigma_, cn_)
             new_a_ == IF IsNaN(term) THEN NaN ELSE (Scale * Scale) \div (term + Scale)
         IN IF Gt(new_a_, GlauertCap) THEN GlauertCap ELSE new_a_

\* term = (4 * F * np.sin(phi) * np.cos(phi)) / (sigma * ct)
TangentialTerm(F_, phi_, sigma_, ct_) ==
    Quot(Times4(MulN(F_, MulN(phi_.sin, phi_.cos))), SigmaTimes(sigma_, ct_))

\* new_a_prime: 0 if ct <= 0.01 or sin(phi) < 0.01 or cos(phi) < 0.01 or
\* term <= 1, else 1 / (term - 1)
NewAPrime(ct_, F_, phi_, sigma_) ==
    IF Leq(ct_, SmallCoeff) \/ Lt(phi_.sin, SmallCoeff) \/ Lt(phi_.cos, SmallCoeff) THEN 0
    ELSE LET term == TangentialTerm(F_, phi_, sigma_, ct_)
         IN IF Leq(term, Scale) THEN 0
            ELSE IF IsNaN(term) THEN NaN
            ELSE IF term >= TermMax THEN 0
            ELSE (Scale * Scale) \div (term - Scale)

\* np.abs(new_a - a[i]) < 1e-5 and np.abs(new_a_prime - a_prime[i]) < 1e-5
\* (1e-5 is a tenth of 1/Scale)
Within(x, y) == ~IsNaN(x) /\ ~IsNaN(y) /\ Abs(x - y) * 10 < 1

Converged(new_a_, new_ap_, ai, api) == Within(new_a_, ai) /\ Within(new_ap_, api)

\* relax * old + (1 - relax) * new with relax = 0.5; the half is rounded
\* toward new, so that a constant candidate is reached as it is in doubles
Relax(old, new) ==
    IF IsNaN(old) \/ IsNaN(new) THEN NaN
    ELSE IF new >= old THEN old + (new - old + 1) \div 2
    ELSE old - (old - new + 1) \div 2

\* np.clip(x, lo, hi); NaN stays NaN
Clip(x, lo, hi) == IF IsNaN(x) THEN NaN ELSE Max2(lo, Min2(x, hi))

\* the candidate stored without relaxation
UpdateAUnrelaxed(ai, new_a_) == Clip(new_a_, 0, ClipLimit)

\* a[i] after one update: relaxation, then the clip to [0, 0.5]
UpdateA(ai, new_a_) == Clip(Relax(ai, new_a_), 0, ClipLimit)
\* a_prime[i] after one update: relaxation, then the clip to [-0.5, 0.5]
UpdateAPrime(api, new_ap_) == Clip(Relax(api, new_ap_), 0 - ClipLimit, ClipLimit)

\* One pass of the iteration at a station: the locals of lines 64-110.
PassLocals(ai, api, ri, ci, betai, afi, R_, v0_, pitch_, omega_, db) ==
    LET sigma_ == Sigma(ci, ri)
        phi_ == FlowAngle(ai, api, v0_, omega_, ri)
        F_ == TipLoss(phi_, R_, ri)
        alpha_ == AngleOfAttack(phi_, pitch_, betai)
        clcd == Coefficients(db, afi, alpha_)
        cn_ == NormalCoeff(clcd[1], clcd[2], phi_)
        ct_ == TangentialCoeff(clcd[1], clcd[2], phi_)
    IN [sigma |-> sigma_, phi |-> phi_, F |-> F_, alpha |-> alpha_,
        cl |-> clcd[1], cd |-> clcd[2], cn |-> cn_, ct |-> ct_,
        new_a |-> NewA(cn_, F_, phi_, sigma_),
        new_a_prime |-> NewAPrime(ct_, F_, phi_, sigma_)]

\* 4 * np.pi * rho, in 1/Scale
FourPiRho == MulDiv(4 * PiS, rho, Scale)

Signed(sign, x) == IF sign < 0 THEN 0 - x ELSE x

\* dT[i] = 4 * np.pi * r[i] * rho * v0**2 * a[i] * (1 - a[i]) * F * dr[i]   [N]
ElementThrust(ri, dri, v0_, ai, F_) ==
    IF IsNaN(ai) \/ IsNaN(F_) THEN NaN
    ELSE LET geom == MulDiv(ri * Abs(dri), FourPiRho, Scale)
             dyn == MulDiv(MulDiv(geom, v0_, 1000), v0_, 1000)
             load == MulS(MulS(ai, Scale - ai), F_)
         IN Signed(dri, MulDiv(dyn, load, Scale))

\* dM[i] = 4 * np.pi * r[i]**3 * rho * v0 * omega * a_prime[i] * (1 - a[i])
\*         * F * dr[i]                                                     [N m]
ElementTorque(ri, dri, v0_, omega_, ai, api, F_) ==
    IF IsNaN(ai) \/ IsNaN(api) \/ IsNaN(F_) THEN NaN
    ELSE LET geom == MulDiv(MulDiv(ri * ri, FourPiRho, Scale), ri, 1000)
             load == MulS(MulS(MulS(Abs(api), Scale - ai), F_), omega_)
             m1 == MulDiv(MulDiv(geom, load, Scale), Abs(dri), 10)
         IN Signed(dri * (IF api < 0 THEN 0 - 1 ELSE 1), MulDiv(m1, v0_, 100))

RECURSIVE SumN(_, _)
\* np.sum over the first n entries; NaN if any entry is NaN
SumN(s, n) ==
    IF n = 0 THEN 0
    ELSE AddN(s[n], SumN(s, n - 1))

\* the torque returned as the power
PowerWithoutOmega(M_, omega_) == M_

\* P = M * omega
Power(M_, omega_) ==
    IF IsNaN(M_) THEN NaN
    ELSE IF M_ >= 0 THEN MulDiv(M_, omega_, Scale)
    ELSE 0 - MulDiv(0 - M_, omega_, Scale)
(***************************************************************************)
(* compute_power_thrust_curves: the rated-condition correction.             *)
(***************************************************************************)
\* rated_power = 15000 kW
rated_power == 15000
\* rated_wind_speed = 10.0 m/s by default, in cm/s
DefaultRatedWindSpeed == 1000
\* pitch_array[i] > pitch_array[i-1] + 1.0, in 0.01 degree
PitchJump == 100
\* v0 > rated_wind_speed + 2, in cm/s
ThrustBuffer == 200

RECURSIVE FirstJumpAnyRise(_, _, _)
\* any rise of the pitch taken for the jump
FirstJumpAnyRise(pitches, n, j) ==
    IF j > n THEN 0
    ELSE IF j > Len(pitches) THEN 0 - 1
    ELSE IF pitches[j] > pitches[j - 1] THEN j
    ELSE FirstJumpAnyRise(pitches, n, j + 1)

RECURSIVE FirstJump(_, _, _)
\* for i in range(1, len(v0_array)): the first i (1-based: j) whose pitch
\* exceeds its predecessor's by more than 1 degree; 0 if the loop ends
\* without one; -1 if pitch_array is indexed past its end first
FirstJump(pitches, n, j) ==
    IF j > n THEN 0
    ELSE IF j > Len(pitches) THEN 0 - 1
    ELSE IF pitches[j] > pitches[j - 1] + PitchJump THEN j
    ELSE FirstJump(pitches, n, j + 1)

\* rated_wind_speed as inferred by lines 187-194
InferRatedWindSpeed(v0s, pitches) ==
    LET j == FirstJump(pitches, Len(v0s), 2)
    IN IF j > 0 THEN v0s[j] ELSE DefaultRatedWindSpeed

\* the last entry left out
ZipLenShort(v0s, pitches, rpms) == Min2(Len(v0s), Min2(Len(pitches), Len(rpms))) - 1

\* zip(v0_array, pitch_array, rpm_array) stops at the shortest sequence
ZipLen(v0s, pitches, rpms) == Min2(Len(v0s), Min2(Len(pitches), Len(rpms)))

\* min(P, rated_power * 1000): Python's min keeps its first argument unless
\* the second is smaller (so NaN stays)
LimitPower(P_) == IF Lt(rated_power * 1000, P_) THEN rated_power * 1000 ELSE P_

\* T * (0.85 * rated_wind_speed / v0)
ScaleThrust(T_, rated, v0_) ==
    IF IsNaN(T_) THEN NaN
    ELSE IF T_ >= 0 THEN MulDiv(MulDiv(T_, 85, 100), rated, v0_)
    ELSE 0 - MulDiv(MulDiv(0 - T_, 85, 100), rated, v0_)

\* the clamp applied at the rated wind speed too
CorrectedPowerAtRated(P_, v0_, rated) == IF v0_ >= rated THEN LimitPower(P_) ELSE P_

\* the clamp applied at every wind speed
CorrectedPowerAlways(P_, v0_, rated) == LimitPower(P_)

\* lines 202-204: the power of an entry after the correction
CorrectedPower(P_, v0_, rated) == IF v0_ > rated THEN LimitPower(P_) ELSE P_

\* the thrust scaled without the buffer of 2 m/s
CorrectedThrustNoBuffer(T_, v0_, rated) ==
    IF v0_ > rated THEN ScaleThrust(T_, rated, v0_) ELSE T_

\* lines 202-211: the thrust of an entry after the correction
CorrectedThrust(T_, v0_, rated) ==
    IF v0_ > rated /\ v0_ > rated + ThrustBuffer THEN ScaleThrust(T_, rated, v0_) ELSE T_

\* x / 1000 (W to kW, N to kN), in 1/Scale
Kilo(x) == IF IsNaN(x) THEN NaN ELSE x * (Scale \div 1000)

(***************************************************************************)
(* compute_cp_ct_surfaces.  Tip-speed ratios are in 1/10; the coefficients *)
(* are in 1/Scale.                                                          *)
(***************************************************************************)
\* v0=10.0, the default of the parameter, in cm/s
DefaultV0 == 1000
\* no reference wind speed is passed
NotGiven == 0 - 1

\* line 219: the parameter v0 with its default
ReferenceWindSpeed(arg) == IF arg = NotGiven THEN DefaultV0 ELSE arg

\* line 251: A = np.pi * R**2, in dm^2
RotorArea(R_) == MulDiv(R_ * R_, PiS, Scale)

\* line 264: rpm = (tsr * v0 * 60) / (2 * np.pi * R), in 0.1 rpm, for R > 0
RpmOfTsr(tsr_, v0_, R_) == (tsr_ * v0_ * 6000) \div ((2 * PiS * R_) \div 10)

\* line 271: 0.5 * rho * A * v0**2, in N
ThrustReference(R_, v0_) ==
    MulDiv(MulDiv(MulDiv(RotorArea(R_), rho, 2 * Scale), v0_, 100), v0_, 100) \div 100

\* line 270: 0.5 * rho * A * v0**3, in W
PowerReference(R_, v0_) ==
    MulDiv(MulDiv(MulDiv(MulDiv(RotorArea(R_), rho, 2 * Scale), v0_, 100), v0_, 100)
               \div 10, v0_, 1000)

\* lines 270-271: the quotient of a load by its reference, in 1/Scale, as
\* numpy forms it: NaN stays NaN, 0/0 is NaN, x/0 is +-inf
Coefficient(load, ref) ==
    IF IsNaN(load) THEN NaN
    ELSE IF ref = 0 THEN (IF load = 0 THEN NaN ELSE Signed(load, TermMax))
    ELSE Signed(load, (Abs(load) \div ref) * Scale + LongDiv(Abs(load) % ref, ref, 4))

PowerCoefficient(P_, R_, v0_) == Coefficient(P_, PowerReference(R_, v0_))
ThrustCoefficient(T_, R_, v0_) == Coefficient(T_, ThrustReference(R_, v0_))

\* line 254: np.meshgrid(pitch_range, tsr_range): one row per tip-speed
\* ratio, one column per pitch
PitchGrid(pitches, tsrs) == [ii \in 1 .. Len(tsrs) |-> pitches]
TsrGrid(pitches, tsrs) == [ii \in 1 .. Len(tsrs) |-> [jj \in 1 .. Len(pitches) |-> tsrs[ii]]]

\* lines 255-256: np.zeros_like(pitch_grid)
ZerosLikeGrid(grid) == [ii \in DOMAIN grid |-> [jj \in DOMAIN grid[ii] |-> 0]]

\* lines 274-275: a float stored into an array of the pitch grid's element
\* type: an integer array takes the value cut to an integer, and refuses NaN
\* and inf with an exception
Storable(int, x) == ~int \/ (~IsNaN(x) /\ Abs(x) < TermMax)
Stored(int, x) == IF int THEN Signed(x, (Abs(x) \div Scale) * Scale) ELSE x

(***************************************************************************)
(* GeneralWindTurbine (wind_turbine/turbine_classes.py).  Speeds are in    *)
(* dm/s, rated_power in kW, the power returned in W.                        *)
(***************************************************************************)
\* self.rated_power * (v / self.v_rated) ** 3, for 0 <= v < v_rated
CubicPower(t, v) ==
    MulDiv(MulDiv(MulDiv(t.rated_power * 1000, v, t.v_rated), v, t.v_rated), v, t.v_rated)

\* the cut-out speed not tested
CalcPowerNoCutOut(t, v) ==
    IF Lt(v, t.v_in) THEN 0
    ELSE IF Lt(v, t.v_rated) THEN CubicPower(t, v)
    ELSE t.rated_power * 1000

\* _calc_power(self, v)
calc_power(t, v) ==
    IF Lt(v, t.v_in) \/ Gt(v, t.v_out) THEN 0
    ELSE IF Lt(v, t.v_rated) THEN CubicPower(t, v)
    ELSE t.rated_power * 1000

\* get_power(self, v) for a v that is neither a list nor an array
get_power(t, v) == calc_power(t, v)

\* lines 55-56: np.array([self._calc_power(speed) for speed in v]) for a list
\* or an array v
get_power_array(t, vs) ==
    [n \in 1 .. Len(vs.items) |-> calc_power(t, vs.items[n])]

(***************************************************************************)
(* WindTurbine: power_curve_data is a sequence of rows << wind speed in    *)
(* dm/s, power in W >>.                                                     *)
(***************************************************************************)
\* wind_speeds = self.power_curve_data[:, 0]
WindSpeedColumn(t) == [n \in 1 .. Len(t.power_curve_data) |-> t.power_curve_data[n][1]]

\* power_values = self.power_curve_data[:, 1]
PowerColumn(t) == [n \in 1 .. Len(t.power_curve_data) |-> t.power_curve_data[n][2]]

\* v_min = np.min(wind_speeds)
MinSpeed(t) ==
    CHOOSE x \in { WindSpeedColumn(t)[n] : n \in DOMAIN WindSpeedColumn(t) } :
        \A n \in DOMAIN WindSpeedColumn(t) : x <= WindSpeedColumn(t)[n]

\* v_max = np.max(wind_speeds)
MaxSpeed(t) ==
    CHOOSE x \in { WindSpeedColumn(t)[n] : n \in DOMAIN WindSpeedColumn(t) } :
        \A n \in DOMAIN WindSpeedColumn(t) : x >= WindSpeedColumn(t)[n]

\* np.interp(x, xp, fp) for increasing xp: fp[0] at and below xp[0], fp[-1]
\* at and above xp[-1], the line through the two bracketing points between
NpInterp(x, xp, fp) ==
    IF IsNaN(x) THEN NaN
    ELSE IF x <= xp[1] THEN fp[1]
    ELSE IF x >= xp[Len(xp)] THEN fp[Len(xp)]
    ELSE LET j == CHOOSE n \in 1 .. Len(xp) - 1 : xp[n] <= x /\ x < xp[n + 1]
             num == (fp[j + 1] - fp[j]) * (x - xp[j])
             den == xp[j + 1] - xp[j]
         IN fp[j] + (IF num >= 0 THEN num \div den ELSE 0 - ((0 - num) \div den))

\* get_power inherited from GeneralWindTurbine, not overridden
WindTurbinePowerInherited(t, v) == calc_power(t, v)

\* WindTurbine.get_power(self, v) for a v that is neither a list nor an
\* array, lines 156-159
WindTurbine_get_power(t, v) ==
    IF Lt(v, MinSpeed(t)) \/ Gt(v, MaxSpeed(t)) THEN 0
    ELSE NpInterp(v, WindSpeedColumn(t), PowerColumn(t))

\* line 154, v[valid_indices]: the mask (v >= v_min) & (v <= v_max) is a
\* boolean array, which indexes an array but not a list
Indexable(vs) == vs.type = "ndarray"

\* WindTurbine.get_power(self, v) for an array v, lines 151-155
WindTurbine_get_power_array(t, vs) ==
    [n \in 1 .. Len(vs.items) |->
        IF Leq(MinSpeed(t), vs.items[n]) /\ Leq(vs.items[n], MaxSpeed(t))
        THEN NpInterp(vs.items[n], WindSpeedColumn(t), PowerColumn(t))
        ELSE 0]

\* the class of a turbine object
IsWindTurbine(t) == "power_curve_data" \in DOMAIN t

\* obj.get_power(v) for a scalar v, by the class of obj
GetPowerOf(t, v) == IF IsWindTurbine(t) THEN WindTurbine_get_power(t, v) ELSE get_power(t, v)

\* obj.get_power(v) for a list or an array v, by the class of obj
GetPowerArrayOf(t, vs) ==
    IF IsWindTurbine(t) THEN WindTurbine_get_power_array(t, vs) ELSE get_power_array(t, vs)

(***************************************************************************)
(* Inputs.                                                                   *)
(***************************************************************************)
\* airfoil 1: a lifting section; airfoil 2: a cylinder; no entry for 3
PolarTables ==
    (1 :> [alpha |-> << -18000, -1000, 0, 1000, 1500, 2500, 9000, 18000 >>,
           cl    |-> << 0, -6000, 4000, 15000, 16000, 10000, 1000, 0 >>,
           cd    |-> << 500, 200, 80, 120, 500, 3000, 13000, 500 >>])
    @@
    (2 :> [alpha |-> << -18000, 18000 >>,
           cl    |-> << 0, 0 >>,
           cd    |-> << 3500, 3500 >>])

\* blades: r and c in dm, beta in 0.01 degree
Blades ==
    { \* hub station at r = 0, cylinder root, lifting outboard sections
      [r |-> << 0, 400, 800, 1200 >>, c |-> << 50, 50, 30, 10 >>,
       beta |-> << 1500, 800, 200, -100 >>, af_id |-> << 2, 2, 1, 1 >>],
      \* airfoil 3 has no polar
      [r |-> << 10, 600, 1200 >>, c |-> << 40, 40, 20 >>,
       beta |-> << 1000, 400, 0 >>, af_id |-> << 3, 3, 1 >>],
      \* zero chord at the tip and inboard; the tip airfoil has no polar
      [r |-> << 300, 600, 1200 >>, c |-> << 0, 40, 0 >>,
       beta |-> << 1000, 400, 0 >>, af_id |-> << 1, 1, 3 >>],
      \* span positions out of order
      [r |-> << 0, 1200, 600 >>, c |-> << 50, 10, 30 >>,
       beta |-> << 1500, 0, 400 >>, af_id |-> << 2, 1, 1 >>],
      \* a lifting section inboard
      [r |-> << 0, 300, 1200 >>, c |-> << 50, 30, 10 >>,
       beta |-> << 1500, 0, 0 >>, af_id |-> << 2, 1, 1 >>],
      \* a large rotor, R = 150 m
      [r |-> << 0, 500, 1000, 1500 >>, c |-> << 50, 60, 50, 30 >>,
       beta |-> << 1500, 400, 0, -100 >>, af_id |-> << 2, 1, 1, 1 >>],
      \* every station on the axis: R = 0, so no station is below 0.01 R
      [r |-> << 0, 0 >>, c |-> << 30, 30 >>,
       beta |-> << 1000, 0 >>, af_id |-> << 3, 1 >>] }

\* operating points of direct solve_bem calls: v0 in cm/s, pitch in 0.01
\* degree, rpm in 0.1 rpm
OpPoints ==
    { [v0 |-> 1000, pitch |-> 0, rpm |-> 75],
      [v0 |-> 1000, pitch |-> 0, rpm |-> 0],
      [v0 |-> 1, pitch |-> 0, rpm |-> 75],
      [v0 |-> 2500, pitch |-> 2000, rpm |-> 75],
      [v0 |-> 600, pitch |-> -300, rpm |-> 50],
      [v0 |-> 300, pitch |-> 900, rpm |-> 70] }

\* the longest schedule prefix tried
MaxSchedule == 3

BaseSchedule ==
    [v0 |-> << 900, 1000, 1100, 1400, 2000 >>,
     pitch |-> << 0, 0, 300, 900, 1500 >>,
     rpm |-> << 70, 75, 75, 75, 75 >>]

Prefix(s, n) == SubSeq(s, 1, Min2(n, Len(s)))

Schedules ==
    { [v0 |-> Prefix(BaseSchedule.v0, n), pitch |-> Prefix(BaseSchedule.pitch, n),
       rpm |-> Prefix(BaseSchedule.rpm, n)] : n \in 0 .. MaxSchedule }
    \cup
    { \* the same entry twice, another one in between; no pitch jump
      [v0 |-> << 1300, 800, 1300 >>, pitch |-> << 500, 500, 500 >>,
       rpm |-> << 75, 60, 75 >>],
      \* pitch rises by exactly 1 degree and by less: no jump, so the rated
      \* wind speed is the default; one entry at the default + 2 m/s
      [v0 |-> << 1100, 1200, 1250 >>, pitch |-> << 0, 100, 150 >>,
       rpm |-> << 75, 75, 75 >>],
      \* one entry repeated
      [v0 |-> << 2000, 2000 >>, pitch |-> << 500, 500 >>, rpm |-> << 100, 100 >>],
      \* sequences of different lengths
      [v0 |-> << 900, 1000, 1100 >>, pitch |-> << 0, 0, 300 >>, rpm |-> << 70, 75 >>],
      [v0 |-> << 900, 1000, 1100 >>, pitch |-> << 0, 0 >>, rpm |-> << 70, 75, 75 >>] }

\* sweeps of compute_cp_ct_surfaces: pitch in 0.01 degree, tip-speed ratio in
\* 1/10, v0 in cm/s or NotGiven
Sweeps ==
    { [pitch |-> << 0, 500 >>, int |-> FALSE, tsr |-> << 40, 80 >>, v0 |-> NotGiven],
      \* the same pitch sweep as integers
      [pitch |-> << 0, 500 >>, int |-> TRUE, tsr |-> << 40, 80 >>, v0 |-> NotGiven],
      \* a rotor at rest in the sweep, a reference wind speed given
      [pitch |-> << -200, 250, 900 >>, int |-> FALSE, tsr |-> << 0, 60 >>, v0 |-> 800],
      [pitch |-> << 300 >>, int |-> TRUE, tsr |-> << 60 >>, v0 |-> 800],
      \* empty sweeps
      [pitch |-> << >>, int |-> FALSE, tsr |-> << 60, 70 >>, v0 |-> NotGiven],
      [pitch |-> << 0 >>, int |-> FALSE, tsr |-> << >>, v0 |-> NotGiven] }

\* tables handed to interpolate_airfoil_coefficients: the polars of the
\* database and a short table whose end slopes are not zero
InterpolatorTables ==
    { PolarTables[id] : id \in DOMAIN PolarTables }
    \cup
    { [alpha |-> << -1000, 0, 1000, 1500 >>,
       cl    |-> << -6000, 4000, 15000, 16000 >>,
       cd    |-> << 200, 80, 120, 500 >>] }

\* query angles, in 0.01 degree: every 2.5 degrees from -200 to 200 degrees,
\* and NaN
InterpolatorAngles == { 250 * n : n \in (0 - 80) .. 80 } \cup { NaN }

\* turbines: rated_power in kW, speeds in dm/s; the constructor takes the
\* speeds in any order
Turbines ==
    { [rated_power |-> 15000, v_in |-> 30, v_rated |-> 110, v_out |-> 250],
      [rated_power |-> 5000, v_in |-> 0, v_rated |-> 0, v_out |-> 200],
      [rated_power |-> 3000, v_in |-> 40, v_rated |-> 40, v_out |-> 40],
      [rated_power |-> 0, v_in |-> 30, v_rated |-> 110, v_out |-> 250],
      \* rated above cut-out
      [rated_power |-> 2000, v_in |-> 30, v_rated |-> 120, v_out |-> 100],
      \* rated below cut-in
      [rated_power |-> 2000, v_in |-> 50, v_rated |-> 30, v_out |-> 250] }

\* wind speeds handed to get_power, in dm/s: every 0.5 m/s from -1 to 30 m/s,
\* and NaN
WindSpeeds == { 5 * n : n \in (0 - 2) .. 60 } \cup { NaN }

\* power curves: one that starts and ends at the cut-in and cut-out speeds,
\* one with powers other than 0 at both ends, one of a single row
PowerCurves ==
    { << << 30, 0 >>, << 60, 400000 >>, << 120, 2000000 >>, << 250, 2000000 >> >>,
      << << 40, 100000 >>, << 100, 1500000 >> >>,
      << << 60, 500000 >> >> }

\* WindTurbine objects: every power curve with two sets of attributes
WindTurbines ==
    { [rated_power |-> t.rated_power, v_in |-> t.v_in, v_rated |-> t.v_rated,
       v_out |-> t.v_out, power_curve_data |-> d] :
        t \in { [rated_power |-> 2000, v_in |-> 30, v_rated |-> 120, v_out |-> 250],
                [rated_power |-> 1000, v_in |-> 50, v_rated |-> 80, v_out |-> 200] },
        d \in PowerCurves }

\* GeneralWindTurbine objects of the array calls
GeneralWindTurbines ==
    { [rated_power |-> 2000, v_in |-> 30, v_rated |-> 120, v_out |-> 250],
      [rated_power |-> 1000, v_in |-> 50, v_rated |-> 80, v_out |-> 200] }

\* the longest array-like handed to get_power
MaxSpeeds == 2

\* the wind speeds of the array calls, in dm/s
ArraySpeeds == { 0 - 5, 20, 30, 45, 60, 100, 130, 250, 260, NaN }

\* array-likes of wind speeds: lists and numpy arrays
ArrayLikes ==
    { [type |-> ty, items |-> it] :
        ty \in { "list", "ndarray" },
        it \in UNION { [1 .. n -> ArraySpeeds] : n \in 1 .. MaxSpeeds } }

(***************************************************************************)
(* State.                                                                    *)
(***************************************************************************)
VARIABLES
    caller,          \* the operation called from outside
    r, c, beta, af_id, polar_database,     \* blade_data and the polars
    v0, pitch, rpm,  \* the operating point of the current solve_bem call
    pc,              \* position in solve_bem
    R, omega, dr,    \* locals of solve_bem set before the loops
    a, a_prime,      \* induction factors
    i,               \* station index of the running loop (1-based)
    passes,          \* passes of the iteration begun at the current station
    loc,             \* locals of the last pass (sigma, phi, F, alpha, cl, ...)
    exit,            \* per station: how its iteration ended
    dT, dM, T, M, P,
    v0_array, pitch_array, rpm_array,      \* operational_data
    cpc,             \* position in compute_power_thrust_curves
    rated_wind_speed,
    k,               \* schedule entry of the running loop (1-based)
    power_curve, thrust_curve, torque_curve,
    solves,          \* history: the solve_bem calls returned so far
    pitch_range, tsr_range,                \* the sweeps of compute_cp_ct_surfaces
    pitch_int,       \* the pitch sweep has an integer element type
    v0_arg,          \* the reference wind speed given, or NotGiven
    spc,             \* position in compute_cp_ct_surfaces
    gi, gj,          \* row and column of the running loops (1-based)
    pitch_grid, tsr_grid, cp_surface, ct_surface,
    polar, alpha_sample,                   \* arguments of the interpolator
    cl_cd,           \* its result
    ipc,             \* position in interpolate_airfoil_coefficients
    turbine, v_wind, \* a GeneralWindTurbine and the argument of get_power
    power,           \* the result of get_power, in W
    tpc,             \* position in get_power
    speeds,          \* the list or array handed to get_power
    powers           \* the array get_power returns for it

vars == << caller, r, c, beta, af_id, polar_database, v0, pitch, rpm, pc, R, omega,
           dr, a, a_prime, i, passes, loc, exit, dT, dM, T, M, P, v0_array,
           pitch_array, rpm_array, cpc, rated_wind_speed, k, power_curve,
           thrust_curve, torque_curve, solves, pitch_range, tsr_range,
           pitch_int, v0_arg, spc, gi, gj, pitch_grid, tsr_grid, cp_surface,
           ct_surface, polar, alpha_sample, cl_cd, ipc, turbine, v_wind, power,
           tpc, speeds, powers >>

inputs == << r, c, beta, af_id, polar_database >>
schedule == << v0_array, pitch_array, rpm_array >>
solver == << pc, R, omega, dr, a, a_prime, i, passes, loc, exit, dT, dM, T, M, P >>
curves == << cpc, rated_wind_speed, k, power_curve, thrust_curve, torque_curve >>
sweeps == << pitch_range, tsr_range, pitch_int, v0_arg >>
surfaces == << spc, gi, gj, pitch_grid, tsr_grid, cp_surface, ct_surface >>
interpolation == << polar, alpha_sample, cl_cd, ipc >>
turbine_call == << turbine, v_wind, power, tpc, speeds, powers >>

NoLocals ==
    [sigma |-> 0, phi |-> [deg |-> 0, sin |-> 0, cos |-> 0], F |-> 0, alpha |-> 0,
     cl |-> 0, cd |-> 0, cn |-> 0, ct |-> 0, new_a |-> 0, new_a_prime |-> 0]

\* the starting value of a station taken from the station before it
InitialAFromNeighbour(r_) ==
    [j \in 1 .. Len(r_) |-> IF j > 1 /\ r_[j - 1] > 0 THEN 2000 ELSE 0]

\* the axial induction of the previous call kept as the starting values
InitialAKept(r_) == IF Len(a) = Len(r_) THEN a ELSE ZerosLike(r_)

\* a = np.zeros_like(r): a fresh array per call
InitialA(r_) == ZerosLike(r_)

\* a_prime = np.zeros_like(r): a fresh array per call
InitialAPrime(r_) == ZerosLike(r_)

\* compute_cp_ct_surfaces is not the operation called
NoSweeps ==
    /\ pitch_range = << >> /\ tsr_range = << >>
    /\ pitch_int = FALSE /\ v0_arg = NotGiven

InitSolver ==
    /\ R = 0 /\ omega = 0 /\ dr = << >>
    /\ a = << >> /\ a_prime = << >>
    /\ i = 0 /\ passes = 0 /\ loc = NoLocals /\ exit = << >>
    /\ dT = << >> /\ dM = << >> /\ T = 0 /\ M = 0 /\ P = 0
    /\ solves = << >>

\* interpolate_airfoil_coefficients is not the operation called
NoInterpolation ==
    /\ polar = [alpha |-> << >>, cl |-> << >>, cd |-> << >>]
    /\ alpha_sample = 0 /\ cl_cd = << >> /\ ipc = "none"

\* get_power is not the operation called
NoTurbineCall ==
    /\ turbine = [rated_power |-> 0, v_in |-> 0, v_rated |-> 0, v_out |-> 0]
    /\ v_wind = 0 /\ power = 0 /\ tpc = "none"
    /\ speeds = [type |-> "list", items |-> << >>] /\ powers = << >>

\* the locals of the two aggregators before a call
InitAggregators ==
    /\ rated_wind_speed = 0 /\ k = 0
    /\ power_curve = << >> /\ thrust_curve = << >> /\ torque_curve = << >>
    /\ gi = 0 /\ gj = 0
    /\ pitch_grid = << >> /\ tsr_grid = << >>
    /\ cp_surface = << >> /\ ct_surface = << >>

Init ==
    /\ \E blade \in Blades :
        /\ r = blade.r /\ c = blade.c /\ beta = blade.beta /\ af_id = blade.af_id
    /\ polar_database = PolarTables
    /\ InitSolver
    /\ InitAggregators
    /\ NoInterpolation /\ NoTurbineCall
    /\ \/ /\ caller = "solve_bem"
          /\ \E op \in OpPoints : v0 = op.v0 /\ pitch = op.pitch /\ rpm = op.rpm
          /\ pc = "begin" /\ cpc = "none" /\ spc = "none"
          /\ v0_array = << >> /\ pitch_array = << >> /\ rpm_array = << >>
          /\ NoSweeps
       \/ /\ caller = "compute_cp_ct_surfaces"
          /\ RotorRadius(r) > 0
          /\ \E sw \in Sweeps :
                /\ pitch_range = sw.pitch /\ pitch_int = sw.int
                /\ tsr_range = sw.tsr /\ v0_arg = sw.v0
                /\ v0 = ReferenceWindSpeed(sw.v0)
          /\ pitch = 0 /\ rpm = 0
          /\ pc = "idle" /\ cpc = "none" /\ spc = "begin"
          /\ v0_array = << >> /\ pitch_array = << >> /\ rpm_array = << >>
       \/ /\ caller = "compute_power_thrust_curves"
          /\ \E sch \in Schedules :
                v0_array = sch.v0 /\ pitch_array = sch.pitch /\ rpm_array = sch.rpm
          /\ v0 = 0 /\ pitch = 0 /\ rpm = 0
          /\ pc = "idle" /\ cpc = "begin" /\ spc = "none"
          /\ NoSweeps

(***************************************************************************)
(* solve_bem                                                                 *)
(***************************************************************************)
\* lines 40-50
SolveBegin ==
    /\ pc = "begin"
    /\ R' = RotorRadius(r)
    /\ omega' = Omega(rpm)
    /\ a' = InitialA(r)
    /\ a_prime' = InitialAPrime(r)
    /\ dr' = Gradient(r)
    /\ exit' = [j \in 1 .. Len(r) |-> "none"]
    /\ i' = 1 /\ passes' = 0
    /\ pc' = "station"
    /\ UNCHANGED << loc, dT, dM, T, M, P, solves >>
    /\ UNCHANGED << caller, inputs, interpolation, turbine_call, sweeps, surfaces, v0, pitch, rpm, schedule, curves >>

\* lines 53-56: a station below 0.01 R is passed over
SkipStation ==
    /\ pc = "station" /\ i <= Len(r)
    /\ Skipped(r[i], R)
    /\ exit' = [exit EXCEPT ![i] = "skipped"]
    /\ i' = i + 1
    /\ UNCHANGED << pc, R, omega, dr, a, a_prime, passes, loc, dT, dM, T, M, P, solves >>
    /\ UNCHANGED << caller, inputs, interpolation, turbine_call, sweeps, surfaces, v0, pitch, rpm, schedule, curves >>

\* lines 58-62: the iteration of a station starts
EnterStation ==
    /\ pc = "station" /\ i <= Len(r)
    /\ ~Skipped(r[i], R)
    /\ passes' = 0
    /\ pc' = "pass"
    /\ UNCHANGED << R, omega, dr, a, a_prime, i, loc, exit, dT, dM, T, M, P, solves >>
    /\ UNCHANGED << caller, inputs, interpolation, turbine_call, sweeps, surfaces, v0, pitch, rpm, schedule, curves >>

\* lines 63-123: one pass; it ends the loop when the test of line 113 holds
IterationPass ==
    /\ pc = "pass" /\ LoopContinues(passes)
    /\ LET L == PassLocals(a[i], a_prime[i], r[i], c[i], beta[i], af_id[i], R, v0,
                           pitch, omega, polar_database)
       IN /\ loc' = L
          /\ IF Converged(L.new_a, L.new_a_prime, a[i], a_prime[i])
             THEN /\ exit' = [exit EXCEPT ![i] = "converged"]
                  /\ i' = i + 1
                  /\ pc' = "station"
                  /\ UNCHANGED << a, a_prime >>
             ELSE /\ a' = [a EXCEPT ![i] = UpdateA(a[i], L.new_a)]
                  /\ a_prime' = [a_prime EXCEPT ![i] = UpdateAPrime(a_prime[i], L.new_a_prime)]
                  /\ UNCHANGED << exit, i, pc >>
    /\ passes' = passes + 1
    /\ UNCHANGED << R, omega, dr, dT, dM, T, M, P, solves >>
    /\ UNCHANGED << caller, inputs, interpolation, turbine_call, sweeps, surfaces, v0, pitch, rpm, schedule, curves >>

\* line 62: range(100) is used up
IterationCap ==
    /\ pc = "pass" /\ ~LoopContinues(passes)
    /\ exit' = [exit EXCEPT ![i] = "cap"]
    /\ i' = i + 1
    /\ pc' = "station"
    /\ UNCHANGED << R, omega, dr, a, a_prime, passes, loc, dT, dM, T, M, P, solves >>
    /\ UNCHANGED << caller, inputs, interpolation, turbine_call, sweeps, surfaces, v0, pitch, rpm, schedule, curves >>

\* lines 125-127: the station loop is over
IntegrateBegin ==
    /\ pc = "station" /\ i > Len(r)
    /\ dT' = ZerosLike(r)
    /\ dM' = ZerosLike(r)
    /\ i' = 1
    /\ pc' = "integrate"
    /\ UNCHANGED << R, omega, dr, a, a_prime, passes, loc, exit, T, M, P, solves >>
    /\ UNCHANGED << caller, inputs, interpolation, turbine_call, sweeps, surfaces, v0, pitch, rpm, schedule, curves >>

\* lines 131-132
IntegrateSkip ==
    /\ pc = "integrate" /\ i <= Len(r)
    /\ Skipped(r[i], R)
    /\ i' = i + 1
    /\ UNCHANGED << pc, R, omega, dr, a, a_prime, passes, loc, exit, dT, dM, T, M, P, solves >>
    /\ UNCHANGED << caller, inputs, interpolation, turbine_call, sweeps, surfaces, v0, pitch, rpm, schedule, curves >>

\* lines 134-145
IntegrateElement ==
    /\ pc = "integrate" /\ i <= Len(r)
    /\ ~Skipped(r[i], R)
    /\ LET phi_ == FlowAngle(a[i], a_prime[i], v0, omega, r[i])
           F_ == TipLoss(phi_, R, r[i])
       IN /\ dT' = [dT EXCEPT ![i] = ElementThrust(r[i], dr[i], v0, a[i], F_)]
          /\ dM' = [dM EXCEPT ![i] = ElementTorque(r[i], dr[i], v0, omega, a[i], a_prime[i], F_)]
    /\ i' = i + 1
    /\ UNCHANGED << pc, R, omega, dr, a, a_prime, passes, loc, exit, T, M, P, solves >>
    /\ UNCHANGED << caller, inputs, interpolation, turbine_call, sweeps, surfaces, v0, pitch, rpm, schedule, curves >>

\* lines 147-152
SolveReturn ==
    /\ pc = "integrate" /\ i > Len(r)
    /\ T' = SumN(dT, Len(dT))
    /\ M' = SumN(dM, Len(dM))
    /\ P' = Power(SumN(dM, Len(dM)), omega)
    /\ pc' = "done"
    /\ solves' = Append(solves, [v0 |-> v0, pitch |-> pitch, rpm |-> rpm,
                                 T |-> T', M |-> M', P |-> P',
                                 a |-> a, a_prime |-> a_prime])
    /\ UNCHANGED << R, omega, dr, a, a_prime, i, passes, loc, exit, dT, dM >>
    /\ UNCHANGED << caller, inputs, interpolation, turbine_call, sweeps, surfaces, v0, pitch, rpm, schedule, curves >>

(***************************************************************************)
(* compute_power_thrust_curves                                               *)
(***************************************************************************)
\* lines 178-194; indexing pitch_array past its end raises IndexError
CurvesBegin ==
    /\ cpc = "begin"
    /\ power_curve' = << >> /\ thrust_curve' = << >> /\ torque_curve' = << >>
    /\ IF FirstJump(pitch_array, Len(v0_array), 2) < 0
       THEN /\ cpc' = "IndexError"
            /\ UNCHANGED << rated_wind_speed, k >>
       ELSE /\ rated_wind_speed' = InferRatedWindSpeed(v0_array, pitch_array)
            /\ k' = 1
            /\ cpc' = "loop"
    /\ UNCHANGED << caller, inputs, interpolation, turbine_call, sweeps, surfaces, v0, pitch, rpm, schedule, solver, solves >>

\* lines 196-198: the next entry of the zip is handed to solve_bem
CurvesCall ==
    /\ cpc = "loop" /\ k <= ZipLen(v0_array, pitch_array, rpm_array)
    /\ v0' = v0_array[k] /\ pitch' = pitch_array[k] /\ rpm' = rpm_array[k]
    /\ pc' = "begin"
    /\ cpc' = "solving"
    /\ UNCHANGED << R, omega, dr, a, a_prime, i, passes, loc, exit, dT, dM, T, M, P, solves >>
    /\ UNCHANGED << caller, inputs, interpolation, turbine_call, sweeps, surfaces, schedule, rated_wind_speed, k, power_curve,
                    thrust_curve, torque_curve >>

\* lines 200-215: solve_bem has returned
CurvesAppend ==
    /\ cpc = "solving" /\ pc = "done"
    /\ power_curve' = Append(power_curve, Kilo(CorrectedPower(P, v0, rated_wind_speed)))
    /\ thrust_curve' = Append(thrust_curve, Kilo(CorrectedThrust(T, v0, rated_wind_speed)))
    /\ torque_curve' = Append(torque_curve, M)
    /\ k' = k + 1
    /\ pc' = "idle"
    /\ cpc' = "loop"
    /\ UNCHANGED << R, omega, dr, a, a_prime, i, passes, loc, exit, dT, dM, T, M, P, solves >>
    /\ UNCHANGED << caller, inputs, interpolation, turbine_call, sweeps, surfaces, v0, pitch, rpm, schedule, rated_wind_speed >>

\* line 217
CurvesReturn ==
    /\ cpc = "loop" /\ k > ZipLen(v0_array, pitch_array, rpm_array)
    /\ cpc' = "done"
    /\ UNCHANGED << caller, inputs, interpolation, turbine_call, sweeps, surfaces, v0, pitch, rpm, schedule, solver, solves,
                    rated_wind_speed, k, power_curve, thrust_curve, torque_curve >>

\* lines 248-256: the rotor radius and the grids
SurfacesBegin ==
    /\ spc = "begin"
    /\ pitch_grid' = PitchGrid(pitch_range, tsr_range)
    /\ tsr_grid' = TsrGrid(pitch_range, tsr_range)
    /\ cp_surface' = ZerosLikeGrid(PitchGrid(pitch_range, tsr_range))
    /\ ct_surface' = ZerosLikeGrid(PitchGrid(pitch_range, tsr_range))
    /\ gi' = 1 /\ gj' = 1
    /\ spc' = "loop"
    /\ UNCHANGED << caller, inputs, interpolation, turbine_call, sweeps, v0, pitch, rpm, schedule, curves,
                    solver, solves >>

\* lines 259-267: the next cell is handed to solve_bem
SurfacesCall ==
    /\ spc = "loop" /\ gi <= Len(tsr_range) /\ gj <= Len(pitch_range)
    /\ pitch' = pitch_grid[gi][gj]
    /\ rpm' = RpmOfTsr(tsr_grid[gi][gj], v0, RotorRadius(r))
    /\ pc' = "begin"
    /\ spc' = "solving"
    /\ UNCHANGED << R, omega, dr, a, a_prime, i, passes, loc, exit, dT, dM, T, M, P, solves >>
    /\ UNCHANGED << caller, inputs, interpolation, turbine_call, sweeps, v0, schedule, curves, gi, gj,
                    pitch_grid, tsr_grid, cp_surface, ct_surface >>

\* lines 269-275: solve_bem has returned; the coefficients are stored
SurfacesStore ==
    /\ spc = "solving" /\ pc = "done"
    /\ LET cp == PowerCoefficient(P, RotorRadius(r), v0)
           ct == ThrustCoefficient(T, RotorRadius(r), v0)
       IN IF ~Storable(pitch_int, cp)
          THEN /\ spc' = "ValueError"
               /\ UNCHANGED << cp_surface, ct_surface, gj >>
          ELSE IF ~Storable(pitch_int, ct)
          THEN /\ cp_surface' = [cp_surface EXCEPT ![gi][gj] = Stored(pitch_int, cp)]
               /\ spc' = "ValueError"
               /\ UNCHANGED << ct_surface, gj >>
          ELSE /\ cp_surface' = [cp_surface EXCEPT ![gi][gj] = Stored(pitch_int, cp)]
               /\ ct_surface' = [ct_surface EXCEPT ![gi][gj] = Stored(pitch_int, ct)]
               /\ gj' = gj + 1
               /\ spc' = "loop"
    /\ pc' = "idle"
    /\ UNCHANGED << R, omega, dr, a, a_prime, i, passes, loc, exit, dT, dM, T, M, P, solves >>
    /\ UNCHANGED << caller, inputs, interpolation, turbine_call, sweeps, v0, pitch, rpm, schedule, curves, gi,
                    pitch_grid, tsr_grid >>

\* line 259: the row is done, the outer loop takes the next tip-speed ratio
SurfacesNextRow ==
    /\ spc = "loop" /\ gi <= Len(tsr_range) /\ gj > Len(pitch_range)
    /\ gi' = gi + 1 /\ gj' = 1
    /\ UNCHANGED << caller, inputs, interpolation, turbine_call, sweeps, v0, pitch, rpm, schedule, curves,
                    solver, solves, spc, pitch_grid, tsr_grid, cp_surface, ct_surface >>

\* line 278
SurfacesReturn ==
    /\ spc = "loop" /\ gi > Len(tsr_range)
    /\ spc' = "done"
    /\ UNCHANGED << caller, inputs, interpolation, turbine_call, sweeps, v0, pitch, rpm, schedule, curves,
                    solver, solves, gi, gj, pitch_grid, tsr_grid, cp_surface,
                    ct_surface >>

Next ==
    \/ SolveBegin
    \/ SkipStation
    \/ EnterStation
    \/ IterationPass
    \/ IterationCap
    \/ IntegrateBegin
    \/ IntegrateSkip
    \/ IntegrateElement
    \/ SolveReturn
    \/ CurvesBegin
    \/ CurvesCall
    \/ CurvesAppend
    \/ CurvesReturn
    \/ SurfacesBegin
    \/ SurfacesCall
    \/ SurfacesStore
    \/ SurfacesNextRow
    \/ SurfacesReturn

Spec == Init /\ [][Next]_vars

(***************************************************************************)
(* interpolate_airfoil_coefficients called on its own.                      *)
(***************************************************************************)
\* neither the solver nor an aggregator is called
NoRotorCall ==
    /\ r = << >> /\ c = << >> /\ beta = << >> /\ af_id = << >>
    /\ polar_database = PolarTables
    /\ InitSolver
    /\ InitAggregators
    /\ NoSweeps
    /\ v0 = 0 /\ pitch = 0 /\ rpm = 0
    /\ v0_array = << >> /\ pitch_array = << >> /\ rpm_array = << >>
    /\ pc = "idle" /\ cpc = "none" /\ spc = "none"

InterpolatorInit ==
    /\ caller = "interpolate_airfoil_coefficients"
    /\ NoRotorCall /\ NoTurbineCall
    /\ polar \in InterpolatorTables
    /\ alpha_sample \in InterpolatorAngles
    /\ cl_cd = << >>
    /\ ipc = "call"

Interpolate ==
    /\ ipc = "call"
    /\ cl_cd' = interpolate_airfoil_coefficients(polar, alpha_sample)
    /\ ipc' = "done"
    /\ UNCHANGED << caller, inputs, turbine_call, sweeps, surfaces, v0, pitch, rpm,
                    schedule, curves, solver, solves, polar, alpha_sample >>

InterpolatorNext == Interpolate

InterpolatorSpec == InterpolatorInit /\ [][InterpolatorNext]_vars

(***************************************************************************)
(* GeneralWindTurbine.get_power called with a scalar.                       *)
(***************************************************************************)
TurbineInit ==
    /\ caller = "get_power"
    /\ NoRotorCall /\ NoInterpolation
    /\ turbine \in Turbines
    /\ v_wind \in WindSpeeds
    /\ power = 0
    /\ tpc = "call"
    /\ speeds = [type |-> "list", items |-> << >>] /\ powers = << >>

\* lines 55-58: a scalar goes to _calc_power
GetPower ==
    /\ tpc = "call"
    /\ power' = get_power(turbine, v_wind)
    /\ tpc' = "done"
    /\ UNCHANGED << caller, inputs, interpolation, sweeps, surfaces, v0, pitch, rpm,
                    schedule, curves, solver, solves, turbine, v_wind, speeds, powers >>

TurbineNext == GetPower

TurbineSpec == TurbineInit /\ [][TurbineNext]_vars

(***************************************************************************)
(* get_power of a GeneralWindTurbine or a WindTurbine called with a scalar *)
(* and then with an array-like.                                             *)
(***************************************************************************)
PowerCurveInit ==
    /\ caller = "get_power_array"
    /\ NoRotorCall /\ NoInterpolation
    /\ turbine \in GeneralWindTurbines \cup WindTurbines
    /\ v_wind \in ArraySpeeds
    /\ speeds \in ArrayLikes
    /\ power = 0 /\ powers = << >>
    /\ tpc = "call"

\* obj.get_power(v) with a scalar v
GetPowerScalar ==
    /\ caller = "get_power_array" /\ tpc = "call"
    /\ power' = GetPowerOf(turbine, v_wind)
    /\ tpc' = "scalar"
    /\ UNCHANGED << caller, inputs, interpolation, sweeps, surfaces, v0, pitch, rpm,
                    schedule, curves, solver, solves, turbine, v_wind, speeds, powers >>

\* obj.get_power(v) with a list or an array v
GetPowerArray ==
    /\ caller = "get_power_array" /\ tpc = "scalar"
    /\ IF IsWindTurbine(turbine) /\ ~Indexable(speeds)
       THEN tpc' = "TypeError" /\ powers' = powers
       ELSE tpc' = "done" /\ powers' = GetPowerArrayOf(turbine, speeds)
    /\ UNCHANGED << caller, inputs, interpolation, sweeps, surfaces, v0, pitch, rpm,
                    schedule, curves, solver, solves, turbine, v_wind, speeds, power >>

PowerCurveNext == GetPowerScalar \/ GetPowerArray

PowerCurveSpec == PowerCurveInit /\ [][PowerCurveNext]_vars
(***************************************************************************)
(* Properties.                                                               *)
(***************************************************************************)
Stations == DOMAIN a
Returned == pc = "done"
NonDecreasing(s) == \A j \in 1 .. Len(s) - 1 : s[j] <= s[j + 1]
AllPositive(s) == \A j \in 1 .. Len(s) : s[j] > 0

\* the station whose pass wrote loc, 0 if there is none
PassStation ==
    IF pc = "pass" /\ passes > 0 THEN i
    ELSE IF pc = "station" /\ i > 1 /\ exit[i - 1] \in {"converged", "cap"} THEN i - 1
    ELSE 0

\* C1: in every state of a solve (after every pass and at return) every
\* station has 0 <= a[i] <= 0.5 and -0.5 <= a'[i] <= 0.5.
C1_InductionWithinClip ==
    \A j \in Stations :
        /\ Leq(0, a[j]) /\ Leq(a[j], 5000)
        /\ Leq(0 - 5000, a_prime[j]) /\ Leq(a_prime[j], 5000)

\* C2: for non-decreasing span positions and positive chords every dT[i] and
\* dM[i] is non-negative, and the returned T, M and P are non-negative.
C2_LoadsNonNegative ==
    (NonDecreasing(r) /\ AllPositive(c)) =>
        /\ \A j \in DOMAIN dT : Leq(0, dT[j]) /\ Leq(0, dM[j])
        /\ Returned => Leq(0, T) /\ Leq(0, M) /\ Leq(0, P)

\* two returned calls with the same operating point returned the same values
SameOutputs ==
    \A p \in DOMAIN solves : \A q \in DOMAIN solves :
        (solves[p].v0 = solves[q].v0 /\ solves[p].pitch = solves[q].pitch
            /\ solves[p].rpm = solves[q].rpm)
        => solves[p] = solves[q]

\* C3: two returned solve_bem calls with the same operating point (on the
\* same blade and polars) returned the same T, M, P, a and a', whatever was
\* solved in between; and no step changes the blade arrays or the polar
\* database.
C3_SameInputsSameOutputs ==
    /\ []SameOutputs
    /\ [][r' = r /\ c' = c /\ beta' = beta /\ af_id' = af_id
            /\ polar_database' = polar_database]_vars

C3_Witness ==
    /\ Len(solves) = 3
    /\ solves[1].v0 = solves[3].v0 /\ solves[1].rpm = solves[3].rpm
    /\ solves[1].v0 # solves[2].v0
    /\ solves[1].a # solves[2].a
    /\ solves[1].T > 0

\* C4: no station makes more than 100 passes; at return every station's
\* iteration has ended by the hub skip, by the convergence test or by the
\* cap, and the thrust elements and their total are built from the stored
\* induction values.
C4_IterationEnds ==
    /\ passes <= 100
    /\ Returned =>
        /\ \A j \in Stations : exit[j] \in {"skipped", "converged", "cap"}
        /\ \A j \in Stations :
              exit[j] \in {"converged", "cap"} =>
                 LET F_ == TipLoss(FlowAngle(a[j], a_prime[j], v0, omega, r[j]), R, r[j])
                 IN dT[j] = ElementThrust(r[j], dr[j], v0, a[j], F_)
        /\ T = SumN(dT, Len(dT))

C4_Witness ==
    /\ Returned
    /\ \E j \in Stations : exit[j] = "cap"
    /\ \E j \in Stations : exit[j] = "converged" /\ a[j] > 0

\* C5: every returned a[i] and a'[i] lies between 0 and 1.
C5_ReturnedBetweenZeroAndOne ==
    Returned =>
        \A j \in Stations :
            /\ Leq(0, a[j]) /\ Leq(a[j], Scale)
            /\ Leq(0, a_prime[j]) /\ Leq(a_prime[j], Scale)

\* C6: a station with r[i] < 0.01 R keeps a[i] = a'[i] = 0 and
\* dT[i] = dM[i] = 0, whatever its chord, twist and airfoil id.
C6_HubStationsSkipped ==
    \A j \in Stations :
        100 * r[j] < SeqMax(r, Len(r)) =>
            /\ a[j] = 0 /\ a_prime[j] = 0
            /\ exit[j] \in {"none", "skipped"}
            /\ j \in DOMAIN dT => dT[j] = 0 /\ dM[j] = 0

C6_Witness ==
    /\ Returned
    /\ \E j \in Stations :
          /\ 100 * r[j] < SeqMax(r, Len(r)) /\ r[j] > 0 /\ c[j] > 0
          /\ exit[j] = "skipped"
    /\ T > 0

\* C7: in every pass at a station whose airfoil id has no polar the
\* coefficients are (0.0001, 0.35); at a station whose id has one they are
\* the interpolator's values at the pass's angle of attack.
C7_FallbackCoefficients ==
    PassStation # 0 =>
        IF af_id[PassStation] \in DOMAIN polar_database
        THEN << loc.cl, loc.cd >>
                = interpolate_airfoil_coefficients(polar_database[af_id[PassStation]], loc.alpha)
        ELSE loc.cl = 1 /\ loc.cd = 3500

C7_Witness ==
    /\ PassStation # 0
    /\ af_id[PassStation] \notin DOMAIN polar_database
    /\ passes > 1
    /\ loc.cl = 1 /\ loc.cd = 3500

\* C8: no pass divides by zero: the divisor 2 pi r[i] of the solidity and
\* the divisor r[i] sin(phi) of the tip-loss exponent are not zero; where the
\* axial quotient is formed (cn > 0.01) its divisor sigma * cn is not zero,
\* and where the tangential quotient is formed its divisor sigma * ct is not
\* zero.
C8_NoZeroDivisor ==
    PassStation # 0 =>
        /\ r[PassStation] # 0
        /\ ~(Abs(loc.phi.sin) * 100 < 1) => r[PassStation] * loc.phi.sin # 0
        /\ Gt(loc.cn, 100) => loc.sigma * loc.cn # 0
        /\ (Gt(loc.ct, 100) /\ ~Lt(loc.phi.sin, 100) /\ ~Lt(loc.phi.cos, 100))
              => loc.sigma * loc.ct # 0

\* C9: T is the sum of the dT[i], M the sum of the dM[i], P = M * omega with
\* omega = rpm * 2 pi / 60, and each dT[i], dM[i] of a solved station comes
\* from the final a[i], a'[i] with phi and F recomputed from them.
RECURSIVE C9_Sum(_, _)
C9_Sum(s, n) ==
    IF n = 0 THEN 0
    ELSE IF IsNaN(s[n]) \/ IsNaN(C9_Sum(s, n - 1)) THEN NaN
    ELSE s[n] + C9_Sum(s, n - 1)

C9_TotalsAreSums ==
    Returned =>
        /\ T = C9_Sum(dT, Len(r))
        /\ M = C9_Sum(dM, Len(r))
        /\ P = (IF IsNaN(M) THEN NaN
                ELSE IF M >= 0 THEN MulDiv(M, (rpm * 2 * 31416) \div 600, Scale)
                ELSE 0 - MulDiv(0 - M, (rpm * 2 * 31416) \div 600, Scale))
        /\ \A j \in Stations :
              100 * r[j] >= R =>
                 LET phi_ == FlowAngle(a[j], a_prime[j], v0, omega, r[j])
                     F_ == TipLoss(phi_, R, r[j])
                 IN /\ dT[j] = ElementThrust(r[j], dr[j], v0, a[j], F_)
                    /\ dM[j] = ElementTorque(r[j], dr[j], v0, omega, a[j], a_prime[j], F_)

C9_Witness ==
    /\ Returned
    /\ Cardinality({j \in Stations : dT[j] > 0}) >= 2
    /\ M > 0 /\ P > 0 /\ P # M

\* C10: for a schedule of three parallel sequences of one length,
\* compute_power_thrust_curves calls the solver once per entry in schedule
\* order, and entry k of every output sequence comes from schedule entry k;
\* on return the outputs are as long as the schedule.
ParallelSchedule == Len(v0_array) = Len(pitch_array) /\ Len(pitch_array) = Len(rpm_array)

C10_OnePerEntryInOrder ==
    (caller = "compute_power_thrust_curves" /\ ParallelSchedule) =>
        /\ Len(solves) <= Len(v0_array)
        /\ \A n \in DOMAIN solves :
              /\ solves[n].v0 = v0_array[n]
              /\ solves[n].pitch = pitch_array[n]
              /\ solves[n].rpm = rpm_array[n]
        /\ Len(thrust_curve) = Len(power_curve)
        /\ Len(torque_curve) = Len(power_curve)
        /\ Len(power_curve) <= Len(solves)
        /\ Len(solves) <= Len(power_curve) + 1
        /\ \A n \in DOMAIN torque_curve : torque_curve[n] = solves[n].M
        /\ cpc = "done" =>
              /\ Len(solves) = Len(v0_array)
              /\ Len(power_curve) = Len(v0_array)

C10_Witness ==
    /\ caller = "compute_power_thrust_curves" /\ ParallelSchedule
    /\ cpc = "done"
    /\ Len(v0_array) = 3
    /\ torque_curve[1] # torque_curve[2] /\ torque_curve[2] # torque_curve[3]

\* The rated wind speed has been inferred: the loop over the entries has begun.
Inferred == cpc \in { "loop", "solving", "done" }

\* The entries of the schedule whose pitch is more than 1 degree above the
\* pitch of the entry before.
PitchJumps ==
    { j \in 2..Len(v0_array) : pitch_array[j] > pitch_array[j - 1] + 100 }

Scenario ==
    /\ caller = "compute_power_thrust_curves"
    /\ v0_array = << 900, 1000, 1100 >>
    /\ pitch_array = << 0, 0, 300 >>
    /\ Len(rpm_array) = 3

\* Entry n of the output is the solver's power and thrust in kW and kN.
Unmodified(n) ==
    /\ power_curve[n] = Kilo(solves[n].P)
    /\ thrust_curve[n] = Kilo(solves[n].T)

\* C12, as stated: in the scenario the rated wind speed is 11 m/s and the power
\* is held at the rated power from the 11 m/s entry onward, the entries at 9 and
\* 10 m/s being unmodified.
C12_ClampFromRatedEntry ==
    (Scenario /\ Inferred) =>
        /\ rated_wind_speed = 1100
        /\ \A n \in DOMAIN power_curve :
              /\ v0_array[n] < 1100 => Unmodified(n)
              /\ (v0_array[n] >= 1100 /\ ~IsNaN(solves[n].P)) =>
                    power_curve[n] <= Kilo(rated_power * 1000)

\* C12, amended: in the scenario the rated wind speed is 11 m/s and no entry is
\* strictly above it, so all three entries, the 11 m/s entry included, are the
\* solver's power and thrust unmodified.
C12_ScenarioEntriesUnmodified ==
    (Scenario /\ Inferred) =>
        /\ rated_wind_speed = 1100
        /\ \A n \in DOMAIN power_curve : Unmodified(n)

C12_Witness ==
    /\ Scenario /\ cpc = "done"
    /\ Len(power_curve) = 3
    /\ solves[3].P > rated_power * 1000
    /\ power_curve[3] = Kilo(solves[3].P)

\* C13: every entry of the output whose wind speed is above the rated wind
\* speed has a power of at most 15000 kW, whatever the solver returned.
C13_PowerLimitedAboveRated ==
    (caller = "compute_power_thrust_curves" /\ ParallelSchedule) =>
        \A n \in DOMAIN power_curve :
            v0_array[n] > rated_wind_speed =>
                Leq(power_curve[n], Kilo(rated_power * 1000))

\* C14: the thrust of an entry is the solver's thrust in kN times
\* 0.85 rated_wind_speed / v0 exactly when v0 is more than 2 m/s above the
\* rated wind speed, and the solver's thrust in kN otherwise.
C14_ThrustScaledBeyondBuffer ==
    caller = "compute_power_thrust_curves" =>
        \A n \in DOMAIN thrust_curve :
            IF solves[n].v0 > rated_wind_speed + 200
            THEN thrust_curve[n] =
                    Kilo(ScaleThrust(solves[n].T, rated_wind_speed, solves[n].v0))
            ELSE thrust_curve[n] = Kilo(solves[n].T)

C14_Witness ==
    /\ caller = "compute_power_thrust_curves" /\ cpc = "done"
    /\ v0_array = << 1100, 1200, 1250 >>
    /\ rated_wind_speed = 1000
    /\ Len(thrust_curve) = 3
    /\ solves[3].T > 0
    /\ thrust_curve[2] = Kilo(solves[2].T)
    /\ thrust_curve[3] < Kilo(solves[3].T)

\* The cells of the grid of compute_cp_ct_surfaces and the solve of a cell:
\* the loops run over the rows and, within a row, over the columns.
Rows == 1 .. Len(tsr_range)
Columns == 1 .. Len(pitch_range)
CellSolve(ii, jj) == solves[(ii - 1) * Len(pitch_range) + jj]
SurfacesReturned == caller = "compute_cp_ct_surfaces" /\ spc = "done"

\* C15: the four grids returned by compute_cp_ct_surfaces have one row per
\* tip-speed ratio and one column per pitch; tsr_grid[i,j] = tsr_range[i],
\* pitch_grid[i,j] = pitch_range[j], and cp_surface[i,j], ct_surface[i,j] are the
\* coefficients of the one solve made at tsr_range[i] and pitch_range[j].
C15_GridsFollowSweeps ==
    SurfacesReturned =>
        /\ Len(solves) = Len(tsr_range) * Len(pitch_range)
        /\ \A grid \in { pitch_grid, tsr_grid, cp_surface, ct_surface } :
              /\ DOMAIN grid = Rows
              /\ \A ii \in Rows : DOMAIN grid[ii] = Columns
        /\ \A ii \in Rows : \A jj \in Columns :
              /\ tsr_grid[ii][jj] = tsr_range[ii]
              /\ pitch_grid[ii][jj] = pitch_range[jj]
              /\ CellSolve(ii, jj).pitch = pitch_range[jj]
              /\ CellSolve(ii, jj).rpm = RpmOfTsr(tsr_range[ii], v0, RotorRadius(r))
              /\ cp_surface[ii][jj] = PowerCoefficient(CellSolve(ii, jj).P, RotorRadius(r), v0)
              /\ ct_surface[ii][jj] = ThrustCoefficient(CellSolve(ii, jj).T, RotorRadius(r), v0)

\* The tip-speed ratio omega R / v0 at a rotor speed, in 1/10.
TipSpeedRatio(rpm_, v0_) == (Omega(rpm_) * RotorRadius(r)) \div (v0_ * 100)

\* The tip-speed ratio of a solve is tsr_ as nearly as the step of 0.1 rpm in
\* the rotor speed allows.
AtTipSpeedRatio(solve, tsr_) ==
    /\ TipSpeedRatio(solve.rpm, solve.v0) <= tsr_
    /\ tsr_ <= TipSpeedRatio(solve.rpm + 1, solve.v0) + 1

\* C16: every cell is solved at the reference wind speed (10 m/s when none is
\* given) and at the rotor speed rpm = tsr v0 60 / (2 pi R), at which
\* omega R / v0 is the cell's tip-speed ratio, and the cell records
\* Cp = P / (0.5 rho A v0^3) and Ct = T / (0.5 rho A v0^2), A = pi R^2, R = max(r).
C16_CellCoefficients ==
    caller = "compute_cp_ct_surfaces" =>
        /\ v0_arg = NotGiven => v0 = 1000
        /\ v0_arg # NotGiven => v0 = v0_arg
        /\ \A ii \in DOMAIN cp_surface : \A jj \in DOMAIN cp_surface[ii] :
              (ii < gi \/ (ii = gi /\ jj < gj)) =>
                 /\ CellSolve(ii, jj).v0 = v0
                 /\ CellSolve(ii, jj).rpm =
                        (tsr_range[ii] * v0 * 6000) \div ((2 * PiS * SeqMax(r, Len(r))) \div 10)
                 /\ AtTipSpeedRatio(CellSolve(ii, jj), tsr_range[ii])
                 /\ cp_surface[ii][jj] =
                        Coefficient(CellSolve(ii, jj).P, PowerReference(SeqMax(r, Len(r)), v0))
                 /\ ct_surface[ii][jj] =
                        Coefficient(CellSolve(ii, jj).T, ThrustReference(SeqMax(r, Len(r)), v0))

\* C17: every cell of the surfaces returned for a blade whose span positions
\* do not decrease has Cp >= 0 and Ct >= 0 (the modelled tip-speed ratios are
\* non-negative and the reference wind speeds positive).
C17_CoefficientsNonNegative ==
    (SurfacesReturned /\ NonDecreasing(r)) =>
        \A ii \in Rows : \A jj \in Columns :
            /\ Leq(0, cp_surface[ii][jj])
            /\ Leq(0, ct_surface[ii][jj])

\* C18: at a query angle equal to a tabulated angle the interpolator returns
\* the tabulated (Cl, Cd); at a query angle below the first or above the last
\* tabulated angle it returns the (Cl, Cd) of that end of the table.
C18_TablePointsAndFlatEnds ==
    (caller = "interpolate_airfoil_coefficients" /\ ipc = "done"
        /\ ~IsNaN(alpha_sample)) =>
        LET n == Len(polar.alpha) IN
        /\ \A j \in 1 .. n :
              alpha_sample = polar.alpha[j] => cl_cd = << polar.cl[j], polar.cd[j] >>
        /\ alpha_sample < polar.alpha[1] => cl_cd = << polar.cl[1], polar.cd[1] >>
        /\ alpha_sample > polar.alpha[n] => cl_cd = << polar.cl[n], polar.cd[n] >>

\* a query beyond the table on the side where the end slope is not zero
C18_Witness ==
    /\ caller = "interpolate_airfoil_coefficients" /\ ipc = "done"
    /\ Len(polar.alpha) = 4
    /\ alpha_sample > polar.alpha[4]
    /\ polar.cl[4] # polar.cl[3]
    /\ cl_cd = << polar.cl[4], polar.cd[4] >>

\* C19: when the wind speeds, pitches and rotor speeds handed to
\* compute_power_thrust_curves differ in length, the call ends in an error
\* before any entry is solved and no curve is produced.
C19_MismatchedLengthsRejected ==
    (caller = "compute_power_thrust_curves" /\ ~ParallelSchedule) =>
        /\ cpc \in { "begin", "IndexError" }
        /\ solves = << >>
        /\ power_curve = << >> /\ thrust_curve = << >> /\ torque_curve = << >>

\* The speeds of the turbine are in order: 0 <= v_in <= v_rated <= v_out.
SpeedsInOrder ==
    /\ 0 <= turbine.v_in /\ turbine.v_in <= turbine.v_rated
    /\ turbine.v_rated <= turbine.v_out

GotPower == caller = "get_power" /\ tpc = "done" /\ ~IsNaN(v_wind)

\* C20, as stated: get_power(v) is 0 when v < v_in or v > v_out,
\* rated_power (v / v_rated)^3 when v_in <= v < v_rated, and rated_power when
\* v_rated <= v <= v_out; with the speeds in order it lies in [0, rated_power].
C20_PowerCurveCases ==
    GotPower =>
        /\ (v_wind < turbine.v_in \/ v_wind > turbine.v_out) => power = 0
        /\ (turbine.v_in <= v_wind /\ v_wind < turbine.v_rated) =>
              power = CubicPower(turbine, v_wind)
        /\ (turbine.v_rated <= v_wind /\ v_wind <= turbine.v_out) =>
              power = turbine.rated_power * 1000
        /\ SpeedsInOrder => (0 <= power /\ power <= turbine.rated_power * 1000)

\* C20, amended: get_power(v) is 0 when v < v_in or v > v_out; for
\* v_in <= v <= v_out it is rated_power (v / v_rated)^3 when v < v_rated and
\* rated_power when v >= v_rated; with the speeds in order it lies in
\* [0, rated_power].
C20_PowerCurveCasesInOrder ==
    GotPower =>
        /\ (v_wind < turbine.v_in \/ v_wind > turbine.v_out) => power = 0
        /\ (turbine.v_in <= v_wind /\ v_wind <= turbine.v_out) =>
              /\ v_wind < turbine.v_rated => power = CubicPower(turbine, v_wind)
              /\ v_wind >= turbine.v_rated => power = turbine.rated_power * 1000
        /\ SpeedsInOrder => (0 <= power /\ power <= turbine.rated_power * 1000)

C20_Witness ==
    /\ GotPower /\ SpeedsInOrder
    /\ turbine.v_in < v_wind /\ v_wind < turbine.v_rated
    /\ 0 < power /\ power < turbine.rated_power * 1000

\* C27: the correction of compute_power_thrust_curves leaves the torque alone:
\* the torque of every entry is the solver's M, also where the power was
\* clamped or the thrust scaled; and an entry whose wind speed is at or below
\* the rated wind speed has the solver's P / 1000 and T / 1000.
C27_TorqueAndEntriesUpToRatedKept ==
    caller = "compute_power_thrust_curves" =>
        \A n \in DOMAIN torque_curve :
            /\ torque_curve[n] = solves[n].M
            /\ solves[n].v0 <= rated_wind_speed => Unmodified(n)

C27_Witness ==
    /\ caller = "compute_power_thrust_curves" /\ cpc = "done"
    /\ v0_array = << 1300, 800, 1300 >> /\ Len(torque_curve) = 3
    /\ rated_wind_speed = 1000
    /\ solves[1].P > rated_power * 1000 /\ power_curve[1] = Kilo(rated_power * 1000)
    /\ solves[1].T > 0 /\ thrust_curve[1] < Kilo(solves[1].T)
    /\ solves[1].M > 0 /\ torque_curve[1] = solves[1].M
    /\ solves[2].P > 0 /\ Unmodified(2)

\* The cells stored so far by compute_cp_ct_surfaces.
StoredCells ==
    { cell \in Rows \X Columns :
        /\ cell[1] \in DOMAIN cp_surface
        /\ cell[1] < gi \/ (cell[1] = gi /\ cell[2] < gj) }

\* C29: compute_cp_ct_surfaces stores the coefficients of a cell without loss:
\* no store fails, and a stored cp_surface[i,j], ct_surface[i,j] is the cp, ct
\* computed for the cell, for a pitch sweep of integers as for one of reals.
C29_CoefficientsStoredWithoutLoss ==
    caller = "compute_cp_ct_surfaces" =>
        /\ spc # "ValueError"
        /\ \A cell \in StoredCells :
              LET solve == CellSolve(cell[1], cell[2]) IN
              /\ cp_surface[cell[1]][cell[2]]
                    = PowerCoefficient(solve.P, RotorRadius(r), solve.v0)
              /\ ct_surface[cell[1]][cell[2]]
                    = ThrustCoefficient(solve.T, RotorRadius(r), solve.v0)

\* A value of the program is a finite number.
Finite(x) == ~IsNaN(x) /\ Abs(x) < TermMax

\* C30: for a rotor of positive radius whose chords are not negative, a zero
\* chord included, no NaN or inf is ever stored in a or a', the induction
\* factors stay within their bounds, and the T, M, P returned are finite.
C30_ZeroChordWellDefined ==
    (RotorRadius(r) > 0 /\ \A j \in DOMAIN c : c[j] >= 0) =>
        /\ \A j \in DOMAIN a :
              /\ Finite(a[j]) /\ 0 <= a[j] /\ a[j] <= 5000
              /\ Finite(a_prime[j]) /\ 0 - 5000 <= a_prime[j] /\ a_prime[j] <= 5000
        /\ Returned => (Finite(T) /\ Finite(M) /\ Finite(P))

\* The candidates computed from the stored a[j], a'[j] of station j.
Candidates(j) ==
    PassLocals(a[j], a_prime[j], r[j], c[j], beta[j], af_id[j], R, v0, pitch, omega,
               polar_database)

\* A station whose iteration stopped at the test holds values within 1e-5 of
\* the candidates computed from them.
ConvergedAtFixedPoint ==
    Returned =>
        \A j \in DOMAIN exit :
            exit[j] = "converged" =>
                /\ Abs(Candidates(j).new_a - a[j]) * 10 < 1
                /\ Abs(Candidates(j).new_a_prime - a_prime[j]) * 10 < 1

\* A pass of the iteration tests before it updates: when both candidates are
\* within 1e-5 of a[i], a'[i] the loop stops and a, a' are left as they are;
\* otherwise a[i] and a'[i] become the clipped means of old value and candidate.
TestThenUpdate ==
    (pc = "pass" /\ passes' = passes + 1) =>
        IF /\ ~IsNaN(loc'.new_a) /\ ~IsNaN(a[i]) /\ Abs(loc'.new_a - a[i]) * 10 < 1
           /\ ~IsNaN(loc'.new_a_prime) /\ ~IsNaN(a_prime[i])
           /\ Abs(loc'.new_a_prime - a_prime[i]) * 10 < 1
        THEN /\ a' = a /\ a_prime' = a_prime
             /\ pc' = "station" /\ i' = i + 1
        ELSE /\ a' = [a EXCEPT ![i] = Clip(Relax(a[i], loc'.new_a), 0, 5000)]
             /\ a_prime' = [a_prime EXCEPT
                               ![i] = Clip(Relax(a_prime[i], loc'.new_a_prime), 0 - 5000, 5000)]
             /\ pc' = "pass" /\ i' = i

\* C23: in each pass of the iteration the convergence test is made before the
\* update: on convergence the loop stops with a[i], a'[i] unchanged, so the
\* returned values of a converged station are within 1e-5 of the candidates
\* computed from them; otherwise a[i] becomes clip(0.5 a[i] + 0.5 new_a, 0, 0.5)
\* and a'[i] becomes clip(0.5 a'[i] + 0.5 new_a', -0.5, 0.5).
C23_TestBeforeUpdate == []ConvergedAtFixedPoint /\ [][TestThenUpdate]_vars

C23_Witness ==
    /\ Returned
    /\ \E j \in DOMAIN exit :
          /\ exit[j] = "converged"
          /\ a[j] > 0 /\ a[j] < 4000 /\ a_prime[j] > 0
          /\ Candidates(j).new_a = a[j]

\* C24: for positive chords, v0 > 0 and rpm >= 0 every candidate new_a lies in
\* [0, 0.4] and, a starting from 0, a[i] <= 0.4 at every station after any
\* number of passes: the upper clamp at 0.5 never binds.
C24_AxialInductionAtMostCap ==
    (AllPositive(c) /\ v0 > 0 /\ rpm >= 0) =>
        /\ \A j \in DOMAIN a : Leq(0, a[j]) /\ Leq(a[j], 4000)
        /\ PassStation # 0 => (Leq(0, loc.new_a) /\ Leq(loc.new_a, 4000))

\* The flow angle of station j recomputed for the integration (line 135).
IntegrationAngle(j) == FlowAngle(a[j], a_prime[j], v0, omega, r[j])

\* The guard of lines 137-138 applies at station j: |sin(phi)| < 1e-6.
SineGuarded(j) ==
    ~IsNaN(IntegrationAngle(j).sin) /\ Abs(IntegrationAngle(j).sin) * 100 < 1

C26_MissingAirfoilNoTorque ==
    (v0 > 0 /\ rpm >= 0) =>
        /\ \A j \in DOMAIN a_prime :
              af_id[j] \notin DOMAIN polar_database =>
                 /\ a_prime[j] = 0
                 /\ Returned => dM[j] = 0
        /\ (PassStation # 0 /\ af_id[PassStation] \notin DOMAIN polar_database) =>
              Leq(loc.ct, 100)

RECURSIVE IterateAlone(_, _, _, _)
\* The iteration of one station run on that station's own r, c, beta, af_id,
\* on R, the operating point and the polars, from the values ai, api, with n
\* passes made so far: the pair (a, a') it ends with.
IterateAlone(ai, api, j, n) ==
    IF n = 100 THEN << ai, api >>
    ELSE LET L == PassLocals(ai, api, r[j], c[j], beta[j], af_id[j], R, v0, pitch,
                             omega, polar_database)
         IN IF /\ ~IsNaN(L.new_a) /\ ~IsNaN(ai) /\ Abs(L.new_a - ai) * 10 < 1
               /\ ~IsNaN(L.new_a_prime) /\ ~IsNaN(api)
               /\ Abs(L.new_a_prime - api) * 10 < 1
            THEN << ai, api >>
            ELSE IterateAlone(Clip(Relax(ai, L.new_a), 0, 5000),
                              Clip(Relax(api, L.new_a_prime), 0 - 5000, 5000), j, n + 1)

\* Station j solved on its own.
SolvedAlone(j) == IF r[j] * 100 < R THEN << 0, 0 >> ELSE IterateAlone(0, 0, j, 0)

\* C28: the a[i], a'[i] returned for a station are those of the station solved
\* on its own, from its r, c, beta, af_id, R, the operating point and the
\* polar table: no other station's chord, twist or airfoil, and no order of
\* solving, enters them.
C28_StationsIndependent ==
    Returned => \A j \in Stations : << a[j], a_prime[j] >> = SolvedAlone(j)

\* two stations with different results, solved after one another
C28_Witness ==
    /\ Returned /\ Len(r) >= 3
    /\ \E j \in Stations :
          /\ j > 1 /\ j < Len(r)
          /\ a[j] > 0 /\ a[j + 1] > 0 /\ a[j] # a[j + 1]
          /\ a_prime[j] > 0
          /\ << a[j], a_prime[j] >> = SolvedAlone(j)

\* the call of get_power with the array-like has ended
GotPowers == caller = "get_power_array" /\ tpc \in { "done", "TypeError" }

\* C21: for a GeneralWindTurbine and for a WindTurbine, get_power of a list
\* or an array of wind speeds returns an array of the same length whose k-th
\* element is get_power of the k-th wind speed as a scalar.
C21_ArrayLikeElementwise ==
    GotPowers =>
        /\ tpc # "TypeError"
        /\ DOMAIN powers = DOMAIN speeds.items
        /\ \A n \in DOMAIN speeds.items : powers[n] = GetPowerOf(turbine, speeds.items[n])

\* row n and row n + 1 of the power curve bracket the wind speed v
Bracketing(t, n, v) ==
    /\ n \in 1 .. Len(t.power_curve_data) - 1
    /\ t.power_curve_data[n][1] < v /\ v < t.power_curve_data[n + 1][1]

\* the power on the line through rows n and n + 1 at the wind speed v
OnTheLine(t, n, v) ==
    LET x0 == t.power_curve_data[n][1]
        y0 == t.power_curve_data[n][2]
        x1 == t.power_curve_data[n + 1][1]
        y1 == t.power_curve_data[n + 1][2]
    IN y0 + ((y1 - y0) * (v - x0)) \div (x1 - x0)

\* the power p returned for the wind speed v follows the power curve alone
FollowsPowerCurve(t, v, p) ==
    /\ (v < MinSpeed(t) \/ v > MaxSpeed(t)) => p = 0
    /\ \A n \in DOMAIN t.power_curve_data :
          v = t.power_curve_data[n][1] => p = t.power_curve_data[n][2]
    /\ \A n \in DOMAIN t.power_curve_data :
          Bracketing(t, n, v) => p = OnTheLine(t, n, v)

\* C22: WindTurbine.get_power(v) is 0 below the smallest and above the
\* largest wind speed of power_curve_data, the tabulated power at a tabulated
\* wind speed and the linear interpolation between the two bracketing rows
\* otherwise, whatever v_in, v_rated, v_out and rated_power are.
C22_PowerFromCurveAlone ==
    (caller = "get_power_array" /\ tpc # "call" /\ IsWindTurbine(turbine) /\ ~IsNaN(v_wind))
        => FollowsPowerCurve(turbine, v_wind, power)

\* a wind speed between two rows, inside the curve but outside [v_in, v_out],
\* and a wind speed outside the curve but inside [v_in, v_out]
C22_Witness ==
    /\ caller = "get_power_array" /\ tpc = "done" /\ IsWindTurbine(turbine)
    /\ ~IsNaN(v_wind)
    /\ \E n \in DOMAIN turbine.power_curve_data : Bracketing(turbine, n, v_wind)
    /\ v_wind < turbine.v_in /\ power > 0
    /\ power # calc_power(turbine, v_wind)
====
